---- MODULE Spec2Model ----
(***************************************************************************)
(* Model of vm_carrier.py: a command-line script that validates six        *)
(* parameters and runs `gcloud compute instances create` once.             *)
(*                                                                         *)
(* An invocation is either a run of the script (argv is parsed by          *)
(* argparse and main() calls create_instance with six keyword arguments)  *)
(* or a direct call of the decorated function create_instance with         *)
(* positional and keyword arguments.  A direct call supplies each          *)
(* parameter at most once:                                                 *)
(* the first Len(args) parameters positionally, any of the others by       *)
(* keyword.  The child process is assumed to start and to terminate with   *)
(* an exit status in 0..MaxExit.                                           *)
(***************************************************************************)
EXTENDS Integers, Sequences, FiniteSets, TLC

VARIABLES
    mode,        \* "script": python vm_carrier.py ...; "call": create_instance(...)
    argv,        \* script: command-line values, a function on the names given
    args,        \* positional arguments of the create_instance call
    kwargs,      \* keyword arguments of the create_instance call
    pc,          \* the frame the interpreter is executing
    log,         \* records written through logging: <<level, message>>
    command,     \* the local `command` of create_instance (<<>> until built)
    spawned,     \* the argument lists handed to subprocess.run, in order
    returncode,  \* exit status of the child, once it has terminated
    exc,         \* the exception in flight (NoExc when none)
    exitStatus   \* exit status of the script, once pc = "exit"

vars == <<mode, argv, args, kwargs, pc, log, command, spawned, returncode, exc, exitStatus>>

----------------------------------------------------------------------------
(* Bounds of the model *)

MaxNameLen == 65
MaxExit == 2

----------------------------------------------------------------------------
(* Program constants and inputs *)

NameMax == 63

DefaultZone == "us-central1-b"

Fields == <<"instance_name", "project", "zone", "source_image", "service_account", "subnet">>

FieldSet == {Fields[i] : i \in 1..Len(Fields)}

RequiredOptions == FieldSet \ {"zone"}

RECURSIVE Rep(_, _)
Rep(c, n) == IF n = 0 THEN "" ELSE c \o Rep(c, n - 1)

NameLens == (0..2) \cup ((NameMax - 1)..MaxNameLen)

Sample == [project |-> "proj", zone |-> "europe-west1-d",
           source_image |-> "img-uri",
           service_account |-> "sa@proj.iam.gserviceaccount.com",
           subnet |-> "subnet-1"]

Strings(f) == IF f = "instance_name" THEN {Rep("a", n) : n \in NameLens}
              ELSE {"", Sample[f]}

ExitCodes == 0..MaxExit

NoExc == [type |-> "", msg |-> "", returncode |-> 0]

Empty == [f \in {} |-> ""]

----------------------------------------------------------------------------
(* Pure parts of the program *)

None == [present |-> FALSE, value |-> ""]

Str(s) == [present |-> TRUE, value |-> s]

\* bool(v) for v a string or None
Truthy(v) == v.present /\ v.value # ""

\* Variant: the value is looked up among the bound arguments, positional included
ExtractBound(a, kw, name) ==
    LET i == CHOOSE j \in 1..Len(Fields) : Fields[j] = name
    IN  IF i <= Len(a) THEN Str(a[i])
        ELSE IF name \in DOMAIN kw THEN Str(kw[name]) ELSE None

\* kwargs.get(name): the positional arguments are not consulted
Extract(a, kw, name) == IF name \in DOMAIN kw THEN Str(kw[name]) ELSE None

\* Variant: off by one in the length check
NameInvalidOffByOne(v) == ~Truthy(v) \/ Len(v.value) >= NameMax

NameInvalid(v) == ~Truthy(v) \/ Len(v.value) > NameMax

\* Variant: the last check (subnet) is missing
ValidationMessageNoSubnet(a, kw) ==
    IF NameInvalid(Extract(a, kw, "instance_name"))
        THEN "Instance name must be non-empty and no longer than 63 characters."
    ELSE IF ~Truthy(Extract(a, kw, "project")) THEN "Project ID is required."
    ELSE IF ~Truthy(Extract(a, kw, "zone")) THEN "Zone is required."
    ELSE IF ~Truthy(Extract(a, kw, "source_image")) THEN "Source image URI is required."
    ELSE IF ~Truthy(Extract(a, kw, "service_account")) THEN "Service account email is required."
    ELSE ""

\* The message of the ValueError the wrapper raises, "" when every check passes
ValidationMessage(a, kw) ==
    IF NameInvalid(Extract(a, kw, "instance_name"))
        THEN "Instance name must be non-empty and no longer than 63 characters."
    ELSE IF ~Truthy(Extract(a, kw, "project")) THEN "Project ID is required."
    ELSE IF ~Truthy(Extract(a, kw, "zone")) THEN "Zone is required."
    ELSE IF ~Truthy(Extract(a, kw, "source_image")) THEN "Source image URI is required."
    ELSE IF ~Truthy(Extract(a, kw, "service_account")) THEN "Service account email is required."
    ELSE IF ~Truthy(Extract(a, kw, "subnet")) THEN "Subnet is required."
    ELSE ""

\* Python's binding of positional and keyword arguments to the six parameters
Bindable(a, kw) ==
    /\ Len(a) <= Len(Fields)
    /\ \A i \in 1..Len(Fields) : (i <= Len(a)) # (Fields[i] \in DOMAIN kw)

Bind(a, kw) == [f \in FieldSet |->
                  LET i == CHOOSE j \in 1..Len(Fields) : Fields[j] = f
                  IN  IF i <= Len(a) THEN a[i] ELSE kw[f]]

\* Variant: the --zone and --project tokens change places
BuildCommandSwapped(p) ==
    << "gcloud", "compute", "instances", "create", p["instance_name"],
       "--zone=" \o p["zone"],
       "--project=" \o p["project"],
       "--source-machine-image=" \o p["source_image"],
       "--service-account=" \o p["service_account"],
       "--subnet=" \o p["subnet"] >>

BuildCommand(p) ==
    << "gcloud", "compute", "instances", "create", p["instance_name"],
       "--project=" \o p["project"],
       "--zone=" \o p["zone"],
       "--source-machine-image=" \o p["source_image"],
       "--service-account=" \o p["service_account"],
       "--subnet=" \o p["subnet"] >>

RECURSIVE Join(_, _)
Join(sep, toks) == IF Len(toks) = 0 THEN ""
                   ELSE IF Len(toks) = 1 THEN toks[1]
                   ELSE toks[1] \o sep \o Join(sep, Tail(toks))

\* argparse: every option but --zone is required; --zone has a default
ParseError(av) == \E f \in RequiredOptions : f \notin DOMAIN av

\* Variant: --zone declared without a default
ParseArgsNoDefault(av) == [f \in FieldSet |->
                            IF f \in DOMAIN av THEN av[f] ELSE ""]

ParseArgs(av) == [f \in FieldSet |->
                    IF f \in DOMAIN av THEN av[f] ELSE DefaultZone]

Info(m) == <<"INFO", m>>

Error(m) == <<"ERROR", m>>

----------------------------------------------------------------------------
(* Initial states *)

Option(f) == {None} \cup {Str(s) : s \in Strings(f)}

Given(r, S) == [f \in {g \in S : r[g].present} |-> r[f].value]

Requests ==
    { [instance_name |-> a, project |-> b, zone |-> c, source_image |-> d,
       service_account |-> e, subnet |-> g] :
          a \in Option("instance_name"), b \in Option("project"),
          c \in Option("zone"), d \in Option("source_image"),
          e \in Option("service_account"), g \in Option("subnet") }

\* python vm_carrier.py [instance_name] [--project P] [--zone Z] ...
InitScript ==
    \E r \in Requests :
        /\ mode = "script"
        /\ argv = Given(r, FieldSet)
        /\ args = <<>>
        /\ kwargs = Empty
        /\ pc = "module"

\* create_instance(v1, ..., vn, name=value, ...)
InitCall ==
    \E r \in Requests, n \in 0..Len(Fields) :
        /\ \A i \in 1..n : r[Fields[i]].present
        /\ mode = "call"
        /\ argv = Empty
        /\ args = [i \in 1..n |-> r[Fields[i]].value]
        /\ kwargs = Given(r, {Fields[i] : i \in (n + 1)..Len(Fields)})
        /\ pc = "log_execution"

Init ==
    /\ InitScript \/ InitCall
    /\ log = <<>>
    /\ command = <<>>
    /\ spawned = <<>>
    /\ returncode = 0
    /\ exc = NoExc
    /\ exitStatus = 0

----------------------------------------------------------------------------
(* Steps of the program *)

\* if __name__ == "__main__": the first log line, then main()
ScriptStart ==
    /\ pc = "module"
    /\ log' = Append(log, Info("Starting the script execution."))
    /\ pc' = "main"
    /\ UNCHANGED <<mode, argv, args, kwargs, command, spawned, returncode, exc, exitStatus>>

\* main(): parser.parse_args() exits with status 2 on a missing required
\* argument; otherwise create_instance is called with six keyword arguments
Main ==
    /\ pc = "main"
    /\ IF ParseError(argv)
         THEN /\ pc' = "exit"
              /\ exitStatus' = 2
              /\ UNCHANGED <<log, kwargs>>
         ELSE /\ log' = Append(log, Info("Parsed command-line arguments successfully."))
              /\ kwargs' = ParseArgs(argv)
              /\ pc' = "log_execution"
              /\ UNCHANGED exitStatus
    /\ UNCHANGED <<mode, argv, args, command, spawned, returncode, exc>>

\* Variant: create_instance is not wrapped by validate_inputs
LogExecutionEnterUnvalidated ==
    /\ pc = "log_execution"
    /\ log' = Append(log, Info("Executing: create_instance"))
    /\ IF Bindable(args, kwargs)
         THEN /\ pc' = "create_instance"
              /\ exc' = exc
         ELSE /\ pc' = "log_execution_return"
              /\ exc' = [type |-> "TypeError", msg |-> "", returncode |-> 0]
    /\ UNCHANGED <<mode, argv, args, kwargs, command, spawned, returncode, exitStatus>>

\* log_execution.wrapper up to the call of the wrapped function
LogExecutionEnter ==
    /\ pc = "log_execution"
    /\ log' = Append(log, Info("Executing: create_instance"))
    /\ pc' = "validate_inputs"
    /\ UNCHANGED <<mode, argv, args, kwargs, command, spawned, returncode, exc, exitStatus>>

\* validate_inputs.wrapper: raise ValueError or call the wrapped function
ValidateInputs ==
    /\ pc = "validate_inputs"
    /\ LET m == ValidationMessage(args, kwargs) IN
         IF m # ""
           THEN /\ log' = Append(log, Error(m))
                /\ exc' = [type |-> "ValueError", msg |-> m, returncode |-> 0]
                /\ pc' = "log_execution_return"
           ELSE /\ log' = Append(log, Info("Input validation passed."))
                /\ IF Bindable(args, kwargs)
                     THEN /\ pc' = "create_instance"
                          /\ exc' = exc
                     ELSE /\ pc' = "log_execution_return"
                          /\ exc' = [type |-> "TypeError", msg |-> "", returncode |-> 0]
    /\ UNCHANGED <<mode, argv, args, kwargs, command, spawned, returncode, exitStatus>>

\* create_instance: build the command, log it, start the child process
CreateInstance ==
    /\ pc = "create_instance"
    /\ command' = BuildCommand(Bind(args, kwargs))
    /\ log' = Append(log, Info("Running command: " \o Join(" ", command')))
    /\ spawned' = Append(spawned, command')
    /\ pc' = "subprocess.run"
    /\ UNCHANGED <<mode, argv, args, kwargs, returncode, exc, exitStatus>>

\* Variant: the except clause logs the error and does not re-raise it
ChildExitSwallowed ==
    /\ pc = "subprocess.run"
    /\ \E k \in ExitCodes :
        /\ returncode' = k
        /\ IF k = 0
             THEN log' = Append(log, Info("Instance " \o Bind(args, kwargs)["instance_name"]
                                              \o " created successfully."))
             ELSE log' = Append(log, Error("Error occurred while creating instance: "
                                  \o "Command returned non-zero exit status " \o ToString(k)))
    /\ pc' = "log_execution_return"
    /\ UNCHANGED <<mode, argv, args, kwargs, command, spawned, exc, exitStatus>>

\* subprocess.run(command, check=True) returns or raises CalledProcessError;
\* the except clause logs the error and re-raises it
ChildExit ==
    /\ pc = "subprocess.run"
    /\ \E k \in ExitCodes :
        /\ returncode' = k
        /\ IF k = 0
             THEN /\ log' = Append(log, Info("Instance " \o Bind(args, kwargs)["instance_name"]
                                              \o " created successfully."))
                  /\ exc' = exc
             ELSE /\ log' = Append(log, Error("Error occurred while creating instance: "
                                  \o "Command returned non-zero exit status " \o ToString(k)))
                  /\ exc' = [type |-> "CalledProcessError", msg |-> "", returncode |-> k]
    /\ pc' = "log_execution_return"
    /\ UNCHANGED <<mode, argv, args, kwargs, command, spawned, exitStatus>>

\* Variant: the decorator catches the exception of the wrapped function
LogExecutionReturnCaught ==
    /\ pc = "log_execution_return"
    /\ log' = Append(log, Info("Completed: create_instance"))
    /\ exc' = NoExc
    /\ pc' = IF mode = "script" THEN "main_return" ELSE "returned"
    /\ UNCHANGED <<mode, argv, args, kwargs, command, spawned, returncode, exitStatus>>

\* log_execution.wrapper after the wrapped function: the completion line is
\* written only when no exception passes through
LogExecutionReturn ==
    /\ pc = "log_execution_return"
    /\ log' = IF exc = NoExc THEN Append(log, Info("Completed: create_instance")) ELSE log
    /\ pc' = IF mode = "script" THEN "main_return" ELSE "returned"
    /\ UNCHANGED <<mode, argv, args, kwargs, command, spawned, returncode, exc, exitStatus>>

\* Variant: the script ends with the child's exit status
ScriptEndMirror ==
    /\ pc = "main_return"
    /\ IF exc = NoExc
         THEN /\ log' = Append(log, Info("Script execution completed."))
              /\ exitStatus' = 0
         ELSE /\ log' = log
              /\ exitStatus' = exc.returncode
    /\ pc' = "exit"
    /\ UNCHANGED <<mode, argv, args, kwargs, command, spawned, returncode, exc>>

\* main() returns to module level: the last log line and exit 0, or the
\* interpreter ends with an uncaught exception (status 1)
ScriptEnd ==
    /\ pc = "main_return"
    /\ IF exc = NoExc
         THEN /\ log' = Append(log, Info("Script execution completed."))
              /\ exitStatus' = 0
         ELSE /\ log' = log
              /\ exitStatus' = 1
    /\ pc' = "exit"
    /\ UNCHANGED <<mode, argv, args, kwargs, command, spawned, returncode, exc>>

Next ==
    \/ ScriptStart
    \/ Main
    \/ LogExecutionEnter
    \/ ValidateInputs
    \/ CreateInstance
    \/ ChildExit
    \/ LogExecutionReturn
    \/ ScriptEnd

Spec == Init /\ [][Next]_vars

----------------------------------------------------------------------------
(* Observations used by the properties *)

HasLog(rec) == \E i \in 1..Len(log) : log[i] = rec

HasErrorLine == \E i \in 1..Len(log) : log[i][1] = "ERROR"

Executing == Info("Executing: create_instance")

Completed == Info("Completed: create_instance")

ValidationPassed == HasLog(Info("Input validation passed."))

ValidationFailed == exc.type = "ValueError"

\* create_instance was invoked and the validating wrapper has decided
PastValidation ==
    \/ pc \in {"create_instance", "subprocess.run", "log_execution_return",
               "main_return", "returned"}
    \/ pc = "exit" /\ HasLog(Executing)

\* the invocation of create_instance is over
Ended ==
    \/ pc \in {"main_return", "returned"}
    \/ pc = "exit" /\ HasLog(Executing)

\* the child process was started and has terminated
ChildExited == Len(spawned) > 0 /\ pc # "subprocess.run"

NameMessage == "Instance name must be non-empty and no longer than 63 characters."

OthersSupplied ==
    \A f \in FieldSet \ {"instance_name"} : f \in DOMAIN kwargs /\ kwargs[f] # ""

\* the value given on the command line, --zone defaulted
Given1(f) == IF f \in DOMAIN argv THEN argv[f] ELSE "us-central1-b"

Phase ==
    IF exc # NoExc THEN "Failed"
    ELSE IF ChildExited /\ returncode = 0 THEN "Executed"
    ELSE IF ValidationPassed THEN "Validated"
    ELSE "Unvalidated"

----------------------------------------------------------------------------
(* Properties *)

\* C1: subprocess.run is never called before validation has passed, never
\* after a ValueError of the validating wrapper, never twice, and exactly
\* once by the end of every invocation whose validation passed.
C1_SpawnOnceIffValidated ==
    /\ Len(spawned) <= 1
    /\ ~ValidationPassed => Len(spawned) = 0
    /\ ValidationFailed => Len(spawned) = 0 /\ ~ValidationPassed
    /\ (Ended /\ ValidationPassed) => Len(spawned) = 1
    /\ (Ended /\ ~ValidationPassed) => ValidationFailed

C1_Witness ==
    /\ pc = "exit"
    /\ ValidationPassed
    /\ Len(spawned) = 1
    /\ returncode # 0

\* C2 (as stated): when the script exits after the child has run, its exit
\* status equals the child's exit status.
C2_ExitMirrorsChild ==
    (pc = "exit" /\ ChildExited) => exitStatus = returncode

\* C2 (amended): the script exits 0 when the child exits 0 and exits 1, the
\* status of an uncaught exception, for every non-zero child exit status.
C2_ExitZeroOrOne ==
    (pc = "exit" /\ ChildExited) =>
        exitStatus = (IF returncode = 0 THEN 0 ELSE 1)

C2_Witness ==
    /\ pc = "exit"
    /\ ChildExited
    /\ returncode = 2
    /\ exitStatus = 1

\* C3: with project, zone, source_image, service_account and subnet non-empty
\* and instance_name a string, validation passes exactly when the length of
\* instance_name is in 1..63, and otherwise raises ValueError.
C3_NameLength ==
    (PastValidation /\ OthersSupplied /\ "instance_name" \in DOMAIN kwargs) =>
        LET n == Len(kwargs["instance_name"]) IN
        /\ ValidationPassed <=> (1 <= n /\ n <= 63)
        /\ ValidationFailed <=> (n = 0 \/ n > 63)

C3_Witness ==
    /\ PastValidation
    /\ OthersSupplied
    /\ "instance_name" \in DOMAIN kwargs
    /\ Len(kwargs["instance_name"]) = 63
    /\ ValidationPassed

\* C4: when one of project, zone, source_image, service_account, subnet is
\* missing or empty in the request (zone default applied), validation raises
\* ValueError whatever the other fields are.
C4_RequiredFields ==
    (PastValidation /\ ~OthersSupplied) =>
        /\ ValidationFailed
        /\ ~ValidationPassed
        /\ Len(spawned) = 0

C4_Witness ==
    /\ PastValidation
    /\ \A f \in FieldSet \ {"subnet"} : f \in DOMAIN kwargs /\ kwargs[f] # ""
    /\ Len(kwargs["instance_name"]) <= 63
    /\ "subnet" \in DOMAIN kwargs
    /\ kwargs["subnet"] = ""
    /\ exc.msg = "Subnet is required."

\* C5: the argument list handed to the child is the 10-token template filled
\* with the values as they were supplied (on the command line, or in the call).
C5_CommandTemplate ==
    Len(spawned) > 0 =>
        LET c == spawned[1]
            v(f) == IF mode = "script" THEN Given1(f) ELSE kwargs[f]
        IN  /\ Len(c) = 10
            /\ c[1] = "gcloud"
            /\ c[2] = "compute"
            /\ c[3] = "instances"
            /\ c[4] = "create"
            /\ c[5] = v("instance_name")
            /\ c[6] = "--project=" \o v("project")
            /\ c[7] = "--zone=" \o v("zone")
            /\ c[8] = "--source-machine-image=" \o v("source_image")
            /\ c[9] = "--service-account=" \o v("service_account")
            /\ c[10] = "--subnet=" \o v("subnet")
            /\ command = c

C5_Witness ==
    /\ mode = "script"
    /\ "zone" \in DOMAIN argv
    /\ Len(spawned) = 1
    /\ spawned[1][5] = "aa"
    /\ spawned[1][7] = "--zone=europe-west1-d"

\* C6: a script run without --zone and with the other five values valid
\* passes validation with zone "us-central1-b" and puts "--zone=us-central1-b"
\* in the command; no run without --zone raises "Zone is required.".
C6_ZoneDefault ==
    (mode = "script" /\ "zone" \notin DOMAIN argv) =>
        /\ exc.msg # "Zone is required."
        /\ (/\ PastValidation
            /\ \A f \in RequiredOptions : argv[f] # ""
            /\ Len(argv["instance_name"]) <= 63)
           => /\ ValidationPassed
              /\ ~ValidationFailed
              /\ kwargs["zone"] = "us-central1-b"
              /\ pc # "create_instance" =>
                    \E i \in 1..Len(spawned[1]) : spawned[1][i] = "--zone=us-central1-b"

C6_Witness ==
    /\ mode = "script"
    /\ "zone" \notin DOMAIN argv
    /\ pc = "exit"
    /\ exitStatus = 0
    /\ spawned[1][7] = "--zone=us-central1-b"

\* C7: once the child has exited with a non-zero status k, the exception in
\* flight is a CalledProcessError carrying k, in every later frame up to the
\* caller of create_instance, and subprocess.run was called exactly once.
C7_ErrorPropagates ==
    (ChildExited /\ returncode # 0) =>
        /\ exc.type = "CalledProcessError"
        /\ exc.returncode = returncode
        /\ Len(spawned) = 1
        /\ ~HasLog(Completed)

C7_Witness ==
    /\ pc = "returned"
    /\ ChildExited
    /\ returncode = 2
    /\ exc.returncode = 2

\* C8: the phase of an invocation only moves Unvalidated -> Validated ->
\* Executed, or to Failed from Unvalidated (ValueError) or from Validated
\* (non-zero child exit); Executed and Failed are never left.
C8_PhaseStep ==
    \/ Phase' = Phase
    \/ Phase = "Unvalidated" /\ Phase' = "Validated"
    \/ Phase = "Unvalidated" /\ Phase' = "Failed" /\ exc'.type = "ValueError"
    \/ Phase = "Validated" /\ Phase' = "Executed"
    \/ Phase = "Validated" /\ Phase' = "Failed" /\ returncode' # 0

C8_StateMachine == [][C8_PhaseStep]_vars

C8_Witness ==
    /\ Phase = "Failed"
    /\ ValidationPassed
    /\ pc = "exit"

\* C9 (as stated): every ended invocation has logged its start, its end, the
\* validation outcome and the command issued, and an error line on failure.
C9_AllLinesAlways ==
    Ended =>
        /\ HasLog(Executing)
        /\ HasLog(Completed)
        /\ ValidationPassed \/ HasErrorLine
        /\ \E i \in 1..Len(log) : log[i][1] = "INFO" /\ log[i][2] = "Running command: " \o Join(" ", command)
        /\ exc # NoExc => HasErrorLine

\* C9 (amended): every ended invocation of create_instance has logged its
\* start and the validation outcome; the command line is logged exactly when
\* validation passed, the end of execution exactly when no error was raised,
\* and an error line exactly when validation failed or the child exited
\* non-zero.  A script run logs its own last line exactly when it exits 0.
C9_LinesByOutcome ==
    /\ Ended =>
        /\ log[IF mode = "script" THEN 3 ELSE 1] = Executing
        /\ \/ ValidationPassed /\ ~ValidationFailed
           \/ ~ValidationPassed /\ ValidationFailed /\ HasLog(Error(exc.msg))
        /\ ValidationPassed <=>
              /\ Len(spawned) = 1
              /\ HasLog(Info("Running command: " \o Join(" ", spawned[1])))
        /\ HasLog(Completed) <=> (exc = NoExc)
        /\ HasErrorLine <=> (ValidationFailed \/ (ChildExited /\ returncode # 0))
    /\ pc = "exit" =>
        /\ log[1] = Info("Starting the script execution.")
        /\ HasLog(Info("Script execution completed.")) <=> (exitStatus = 0)

C9_Witness ==
    /\ Ended
    /\ ValidationFailed
    /\ HasErrorLine
    /\ ~HasLog(Completed)
    /\ command = <<>>

\* C10: a call of create_instance that passes at least one argument
\* positionally raises the ValueError of the instance name, the first
\* positional parameter, whatever the values, and starts no child process.
C10_PositionalRejected ==
    (mode = "call" /\ Len(args) >= 1 /\ PastValidation) =>
        /\ exc.type = "ValueError"
        /\ exc.msg = NameMessage
        /\ HasLog(Error(NameMessage))
        /\ Len(spawned) = 0

C10_Witness ==
    /\ mode = "call"
    /\ pc = "returned"
    /\ Len(args) = Len(Fields)
    /\ Len(args[1]) = 63
    /\ \A i \in 1..Len(args) : args[i] # ""
    /\ kwargs = Empty
    /\ exc.msg = NameMessage

====
